---- MODULE Spec2Model ----
(***************************************************************************)
(* The Dart repository: the Killer session guard and its registration stub *)
(* (src/Killer/Killer.py) and the QR-scan / photo-capture registration     *)
(* flow (src/PlayerRegistry.py).                                           *)
(*                                                                         *)
(* A Python process runs one of the two pieces (`script`): nothing of one  *)
(* is reachable from the other at run time.                                *)
(*                                                                         *)
(* Python values:                                                          *)
(*   str    a sequence of code points                                      *)
(*   bytes  a sequence of byte values                                      *)
(*   None   the value None (below), no sequence of code points             *)
(***************************************************************************)
EXTENDS Integers, Sequences, FiniteSets, TLC

VARIABLES
    script,      \* "Killer" | "PlayerRegistry": the piece this process runs
    \* ---- src/Killer/Killer.py
    session,     \* the object `Killer(n)` gave: [obj, amount_players]
    kcall,       \* the last call made: [op, n, token, before]
    kexc,        \* the exception that call raised, or "none"
    mapping,     \* the token-to-name mapping, populated outside this code
    players,     \* the players of the game, in the order they were added
    kout,        \* what the stub printed
    \* ---- src/PlayerRegistry.py
    pc,          \* where main() is
    caps,        \* every cv2.VideoCapture made: [owner, releases]
    seen,        \* the frames cap.read() delivered to scan_qr_code
    scan_exit,   \* how scan_qr_code ended
    player_id,   \* what scan_qr_code returned to main
    forms,       \* the identifiers registration_window was opened with
    name,        \* submit's local `name`
    pic,         \* the running take_picture call: [read, keys, writes]
    files,       \* every path cv2.imwrite wrote, in order
    stdout,      \* what main and submit printed
    cb_errors    \* exceptions Tk caught in the submit callback

kvars == <<session, kcall, kexc, mapping, players, kout>>
rvars == <<pc, caps, seen, scan_exit, player_id, forms, name, pic, files, stdout, cb_errors>>
vars == <<script, session, kcall, kexc, mapping, players, kout,
          pc, caps, seen, scan_exit, player_id, forms, name, pic, files, stdout, cb_errors>>

\* ------------------------------------------------------------------ bounds
MaxCount == 7       \* player counts run up to this
BelowZero == 2      \* and down to -BelowZero
MaxFrames == 3      \* frames the camera delivers to one scan
MaxCaptures == 2    \* take_picture calls in one run

\* ------------------------------------------------------- program constants
MaxPlayers == 4     \* Killer.__init__: amount_players > 4
OrdQ == 113         \* ord('q')
OrdS == 115         \* ord('s')
ByteMask == 255     \* 0xFF

None == <<-1>>

Range(s) == {s[i] : i \in 1..Len(s)}

\* ================================================= src/Killer/Killer.py ==

Counts == (0 - BelowZero)..MaxCount
Tokens == {"abc123", "zzz"}
Mappings == {[t \in {"abc123"} |-> "Alice"], [t \in {} |-> "Alice"]}

NoSession == [obj |-> FALSE, amount_players |-> 0]
NoCall == [op |-> "none", n |-> 0, token |-> "", before |-> <<>>]

\* The names the module binds at its top level (lines 1 and 3). The stub
\* reads `player_data` and `game`, which no line of the module binds.
KillerGlobals == {"TooManyPlayersException", "Killer"}

Killer__init__OffByOne(n) ==
    [self |-> [obj |-> TRUE, amount_players |-> n],
     raised |-> IF n >= MaxPlayers THEN "TooManyPlayersException" ELSE "none"]

\* Killer.__init__(self, amount_players): the attribute is stored, then the
\* guard raises.
Killer__init__(n) ==
    [self |-> [obj |-> TRUE, amount_players |-> n],
     raised |-> IF n > MaxPlayers THEN "TooManyPlayersException" ELSE "none"]

\* session = Killer(n): the name is bound only when __init__ returns.
Construct ==
    /\ script = "Killer"
    /\ \E n \in Counts :
         LET r == Killer__init__(n) IN
         /\ session' = IF r.raised = "none" THEN r.self ELSE NoSession
         /\ kexc' = r.raised
         /\ kcall' = [op |-> "init", n |-> n, token |-> "", before |-> players]
    /\ UNCHANGED <<script, mapping, players, kout>>
    /\ UNCHANGED rvars

\* register_player_from_qr(token), lines 10-16: what the body does, as
\* [raised, players, out]. A name that is not bound raises NameError where
\* it is read.
register_player_from_qr(token) ==
    IF "player_data" \notin KillerGlobals
    THEN [raised |-> "NameError", players |-> players, out |-> kout]
    ELSE IF token \in DOMAIN mapping
    THEN IF "game" \notin KillerGlobals
         THEN [raised |-> "NameError", players |-> players, out |-> kout]
         ELSE [raised |-> "none",
               players |-> Append(players, mapping[token]),
               out |-> Append(kout, [kind |-> "added", text |-> mapping[token]])]
    ELSE [raised |-> "none", players |-> players,
          out |-> Append(kout, [kind |-> "miss", text |-> token])]

\* Killer.register_player_from_qr(token): the function reached through the
\* class, `token` bound to the argument.
RegisterViaClass ==
    /\ script = "Killer"
    /\ \E token \in Tokens :
         LET r == register_player_from_qr(token) IN
         /\ kexc' = r.raised
         /\ players' = r.players
         /\ kout' = r.out
         /\ kcall' = [op |-> "register", n |-> 0, token |-> token, before |-> players]
    /\ UNCHANGED <<script, session, mapping>>
    /\ UNCHANGED rvars

\* session.register_player_from_qr(token): the def has one parameter and no
\* `self`, so the bound method is given two arguments and the call raises
\* TypeError before the body runs.
RegisterViaInstance ==
    /\ script = "Killer"
    /\ session.obj
    /\ \E token \in Tokens :
         kcall' = [op |-> "register", n |-> 0, token |-> token, before |-> players]
    /\ kexc' = "TypeError"
    /\ UNCHANGED <<script, session, mapping, players, kout>>
    /\ UNCHANGED rvars

\* ================================================= src/PlayerRegistry.py ==

\* barcode.data of the codes the camera is shown: "p1", "p2", "" , "é",
\* and two byte strings that are not UTF-8.
B_p1 == <<112, 49>>
B_p2 == <<112, 50>>
B_empty == <<>>
B_eacute == <<195, 169>>
B_bad == <<255>>

\* What decode(frame) gives for a frame: the barcodes found, in order.
Decodes == {<<>>, <<B_p1>>, <<B_empty>>, <<B_eacute>>, <<B_bad>>,
            <<B_p2, B_p1>>, <<B_p1, B_bad>>}

\* What cv2.waitKey returns: -1 (no key), a key code, or a key code with a
\* modifier flag above the low byte (0x100000, NumLock under GTK).
Keys == {-1, OrdQ, OrdS, 1048576 + OrdQ, 1048576 + OrdS}

\* What cap.read() returns, with the key cv2.waitKey(1) will find pending
\* while the frame is shown.
Frames == {[ret |-> FALSE, codes |-> <<>>, key |-> -1]}
          \cup {[ret |-> TRUE, codes |-> c, key |-> k] : c \in Decodes, k \in Keys}

Names == {"Alice", ""}

\* A collaborator call that raises instead of returning.
PicFaults == {"read", "imshow", "waitKey", "imwrite"}
ScanFaults == {"none", "read", "decode", "imshow", "waitKey"}

\* `k & 0xFF` on a Python int of any sign.
KeyMask(k) == k % (ByteMask + 1)

\* bytes.decode('utf-8') for sequences of one- and two-byte forms; every
\* other lead byte modelled here (0xFF) is no UTF-8 at all.
RECURSIVE Utf8Valid(_)
Utf8Valid(b) ==
    IF b = <<>> THEN TRUE
    ELSE IF b[1] < 128 THEN Utf8Valid(Tail(b))
    ELSE IF b[1] \in 194..223 /\ Len(b) >= 2 /\ b[2] \in 128..191
         THEN Utf8Valid(Tail(Tail(b)))
    ELSE FALSE

RECURSIVE Utf8Decode(_)
Utf8Decode(b) ==
    IF b = <<>> THEN <<>>
    ELSE IF b[1] < 128 THEN <<b[1]>> \o Utf8Decode(Tail(b))
    ELSE <<(b[1] - 192) * 64 + (b[2] - 128)>> \o Utf8Decode(Tail(Tail(b)))

\* f"{player_id}_photo.png"
PhotoSuffix == <<95, 112, 104, 111, 116, 111, 46, 112, 110, 103>>
PhotoPath(id) == id \o PhotoSuffix

\* `if player_id:` -- None and the empty str are false.
Truthy_Always(v) == TRUE
Truthy(v) == v # None /\ v # <<>>

\* cap.release() on the i-th VideoCapture.
Release(cs, i) == [cs EXCEPT ![i].releases = @ + 1]

Open(owner) == [owner |-> owner, releases |-> 0]

Outcome(kind, value) == [kind |-> kind, value |-> value]

ScanStep_QuitFirst(frame, fault) ==
    IF fault = "read" THEN Outcome("raise", None)
    ELSE IF ~frame.ret THEN Outcome("readfail", None)
    ELSE IF KeyMask(frame.key) = OrdQ THEN Outcome("cancel", None)
    ELSE IF fault = "decode" THEN Outcome("raise", None)
    ELSE IF frame.codes # <<>>
         THEN IF Utf8Valid(frame.codes[1])
              THEN Outcome("found", Utf8Decode(frame.codes[1]))
              ELSE Outcome("raise", None)
    ELSE IF fault \in {"imshow", "waitKey"} THEN Outcome("raise", None)
    ELSE Outcome("continue", None)

\* One iteration of the loop of scan_qr_code, lines 11-24: how it ends.
\* The for loop returns in its first iteration, so only decode(frame)[0]
\* is looked at, and the key is read only when nothing was decoded.
ScanStep(frame, fault) ==
    IF fault = "read" THEN Outcome("raise", None)
    ELSE IF ~frame.ret THEN Outcome("readfail", None)
    ELSE IF fault = "decode" THEN Outcome("raise", None)
    ELSE IF frame.codes # <<>>
         THEN IF Utf8Valid(frame.codes[1])
              THEN Outcome("found", Utf8Decode(frame.codes[1]))
              ELSE Outcome("raise", None)
    ELSE IF fault \in {"imshow", "waitKey"} THEN Outcome("raise", None)
    ELSE IF KeyMask(frame.key) = OrdQ THEN Outcome("cancel", None)
    ELSE Outcome("continue", None)

Say(kind, id, n) == [kind |-> kind, id |-> id, name |-> n]

\* main(), lines 63-64, into scan_qr_code line 8.
MainStart ==
    /\ script = "PlayerRegistry"
    /\ pc = "idle"
    /\ stdout' = Append(stdout, Say("scanning", None, ""))
    /\ caps' = Append(caps, Open("scan"))
    /\ pc' = "scan_loop"
    /\ UNCHANGED <<seen, scan_exit, player_id, forms, name, pic, files, cb_errors>>
    /\ UNCHANGED <<script>> /\ UNCHANGED kvars

\* Lines 11-13: the read fails, break.
ScanReadFail ==
    /\ pc = "scan_loop" /\ Len(seen) < MaxFrames
    /\ \E frame \in Frames, fault \in ScanFaults :
         /\ ScanStep(frame, fault).kind = "readfail"
         /\ seen' = Append(seen, frame)
    /\ scan_exit' = "readfail"
    /\ pc' = "scan_after_loop"
    /\ UNCHANGED <<caps, player_id, forms, name, pic, files, stdout, cb_errors>>
    /\ UNCHANGED <<script>> /\ UNCHANGED kvars

ScanFound_NoRelease ==
    /\ pc = "scan_loop" /\ Len(seen) < MaxFrames
    /\ \E frame \in Frames, fault \in ScanFaults :
         /\ ScanStep(frame, fault).kind = "found"
         /\ seen' = Append(seen, frame)
         /\ player_id' = ScanStep(frame, fault).value
    /\ scan_exit' = "found"
    /\ pc' = "main_check"
    /\ UNCHANGED <<caps, forms, name, pic, files, stdout, cb_errors>>
    /\ UNCHANGED <<script>> /\ UNCHANGED kvars

\* Lines 15-19: the first barcode of the frame is decoded to text, the
\* camera is released and the text returned.
ScanFound ==
    /\ pc = "scan_loop" /\ Len(seen) < MaxFrames
    /\ \E frame \in Frames, fault \in ScanFaults :
         /\ ScanStep(frame, fault).kind = "found"
         /\ seen' = Append(seen, frame)
         /\ player_id' = ScanStep(frame, fault).value
    /\ caps' = Release(caps, 1)
    /\ scan_exit' = "found"
    /\ pc' = "main_check"
    /\ UNCHANGED <<forms, name, pic, files, stdout, cb_errors>>
    /\ UNCHANGED <<script>> /\ UNCHANGED kvars

\* Lines 21-24: nothing decoded, the frame is shown, 'q' is pending, break.
ScanCancel ==
    /\ pc = "scan_loop" /\ Len(seen) < MaxFrames
    /\ \E frame \in Frames, fault \in ScanFaults :
         /\ ScanStep(frame, fault).kind = "cancel"
         /\ seen' = Append(seen, frame)
    /\ scan_exit' = "cancel"
    /\ pc' = "scan_after_loop"
    /\ UNCHANGED <<caps, player_id, forms, name, pic, files, stdout, cb_errors>>
    /\ UNCHANGED <<script>> /\ UNCHANGED kvars

\* Lines 21-24 and back to line 10: nothing decoded, no 'q'.
ScanContinue ==
    /\ pc = "scan_loop" /\ Len(seen) < MaxFrames
    /\ \E frame \in Frames, fault \in ScanFaults :
         /\ ScanStep(frame, fault).kind = "continue"
         /\ seen' = Append(seen, frame)
    /\ UNCHANGED <<pc, scan_exit, caps, player_id, forms, name, pic, files, stdout, cb_errors>>
    /\ UNCHANGED <<script>> /\ UNCHANGED kvars

\* A call of lines 11-23 raises (cap.read, decode, barcode.data.decode,
\* cv2.imshow, cv2.waitKey). Nothing in scan_qr_code or main catches it:
\* the exception leaves both, past lines 17 and 26.
ScanRaise ==
    /\ pc = "scan_loop" /\ Len(seen) < MaxFrames
    /\ \E frame \in Frames, fault \in ScanFaults :
         /\ ScanStep(frame, fault).kind = "raise"
         /\ seen' = IF fault = "read" THEN seen ELSE Append(seen, frame)
    /\ scan_exit' = "error"
    /\ pc' = "crashed"
    /\ UNCHANGED <<caps, player_id, forms, name, pic, files, stdout, cb_errors>>
    /\ UNCHANGED <<script>> /\ UNCHANGED kvars

\* Lines 26-27 and the implicit `return None`.
ScanAfterLoop ==
    /\ pc = "scan_after_loop"
    /\ caps' = Release(caps, 1)
    /\ player_id' = None
    /\ pc' = "main_check"
    /\ UNCHANGED <<seen, scan_exit, forms, name, pic, files, stdout, cb_errors>>
    /\ UNCHANGED <<script>> /\ UNCHANGED kvars

\* main(), lines 66-68, into registration_window up to root.mainloop().
MainScanned ==
    /\ pc = "main_check"
    /\ Truthy(player_id)
    /\ stdout' = Append(stdout, Say("scanned", player_id, ""))
    /\ forms' = Append(forms, player_id)
    /\ pc' = "form_open"
    /\ UNCHANGED <<caps, seen, scan_exit, player_id, name, pic, files, cb_errors>>
    /\ UNCHANGED <<script>> /\ UNCHANGED kvars

\* main(), lines 69-70.
MainFailed ==
    /\ pc = "main_check"
    /\ ~Truthy(player_id)
    /\ stdout' = Append(stdout, Say("scan_failed", None, ""))
    /\ pc' = "failed"
    /\ UNCHANGED <<caps, seen, scan_exit, player_id, forms, name, pic, files, cb_errors>>
    /\ UNCHANGED <<script>> /\ UNCHANGED kvars

\* The operator closes the form without submitting: root.mainloop() and
\* main() return.
CloseForm ==
    /\ pc = "form_open"
    /\ pc' = "closed"
    /\ UNCHANGED <<caps, seen, scan_exit, player_id, forms, name, pic, files, stdout, cb_errors>>
    /\ UNCHANGED <<script>> /\ UNCHANGED kvars

\* The Submit button: submit(), lines 43-44, into take_picture line 31.
Submit ==
    /\ pc = "form_open"
    /\ Cardinality({i \in 1..Len(caps) : caps[i].owner = "photo"}) < MaxCaptures
    /\ \E n \in Names : name' = n
    /\ caps' = Append(caps, Open("photo"))
    /\ pic' = [read |-> "pending", keys |-> <<>>, writes |-> 0]
    /\ pc' = "pic_read"
    /\ UNCHANGED <<seen, scan_exit, player_id, forms, files, stdout, cb_errors>>
    /\ UNCHANGED <<script>> /\ UNCHANGED kvars

\* take_picture, lines 32-33: the read fails, on to line 37.
TakePictureReadFail ==
    /\ pc = "pic_read"
    /\ pic' = [pic EXCEPT !.read = "fail"]
    /\ pc' = "pic_release"
    /\ UNCHANGED <<caps, seen, scan_exit, player_id, forms, name, files, stdout, cb_errors>>
    /\ UNCHANGED <<script>> /\ UNCHANGED kvars

\* take_picture, lines 32-35: the frame is shown and cv2.waitKey(0) waits.
TakePicturePreview ==
    /\ pc = "pic_read"
    /\ pic' = [pic EXCEPT !.read = "ok"]
    /\ pc' = "pic_wait"
    /\ UNCHANGED <<caps, seen, scan_exit, player_id, forms, name, files, stdout, cb_errors>>
    /\ UNCHANGED <<script>> /\ UNCHANGED kvars

SaveConfirmed_WrongKey(key) == KeyMask(key) = OrdQ

\* Line 35: cv2.waitKey(0) & 0xFF == ord('s')
SaveConfirmed(key) == KeyMask(key) = OrdS

\* take_picture, lines 35-36: a key arrives.
TakePictureKey ==
    /\ pc = "pic_wait"
    /\ \E key \in Keys :
         /\ pic' = [pic EXCEPT !.keys = Append(@, key),
                               !.writes = IF SaveConfirmed(key) THEN @ + 1 ELSE @]
         /\ files' = IF SaveConfirmed(key)
                     THEN Append(files, PhotoPath(player_id)) ELSE files
    /\ pc' = "pic_release"
    /\ UNCHANGED <<caps, seen, scan_exit, player_id, forms, name, stdout, cb_errors>>
    /\ UNCHANGED <<script>> /\ UNCHANGED kvars

\* A call of lines 32-36 raises (cap.read, cv2.imshow, cv2.waitKey, or
\* cv2.imwrite once 's' was pressed), past line 37. submit runs as a Tk
\* callback: Tk reports the exception, keeps its traceback (and so the frame
\* holding `cap`) in sys.last_traceback, and the main loop goes on with the
\* form open.
TakePictureRaise ==
    /\ \E fault \in PicFaults, key \in Keys :
         \/ /\ pc = "pic_read" /\ fault = "read" /\ key = -1
            /\ pic' = pic
         \/ /\ pc = "pic_read" /\ fault = "imshow" /\ key = -1
            /\ pic' = [pic EXCEPT !.read = "ok"]
         \/ /\ pc = "pic_wait" /\ fault = "waitKey" /\ key = -1
            /\ pic' = pic
         \/ /\ pc = "pic_wait" /\ fault = "imwrite" /\ SaveConfirmed(key)
            /\ pic' = [pic EXCEPT !.keys = Append(@, key)]
    /\ cb_errors' = cb_errors + 1
    /\ pc' = "form_open"
    /\ UNCHANGED <<caps, seen, scan_exit, player_id, forms, name, files, stdout>>
    /\ UNCHANGED <<script>> /\ UNCHANGED kvars

\* take_picture, lines 37-38, back into submit.
TakePictureRelease ==
    /\ pc = "pic_release"
    /\ caps' = Release(caps, Len(caps))
    /\ pc' = "submit_log"
    /\ UNCHANGED <<seen, scan_exit, player_id, forms, name, pic, files, stdout, cb_errors>>
    /\ UNCHANGED <<script>> /\ UNCHANGED kvars

\* submit(), lines 45-46: the registration is printed, the form destroyed;
\* root.mainloop() and main() return.
SubmitLog ==
    /\ pc = "submit_log"
    /\ stdout' = Append(stdout, Say("registered", player_id, name))
    /\ pc' = "done"
    /\ UNCHANGED <<caps, seen, scan_exit, player_id, forms, name, pic, files, cb_errors>>
    /\ UNCHANGED <<script>> /\ UNCHANGED kvars

\* ============================================================ the system ==

Init ==
    /\ script \in {"Killer", "PlayerRegistry"}
    /\ session = NoSession
    /\ kcall = NoCall
    /\ kexc = "none"
    /\ mapping \in Mappings
    /\ players = <<>>
    /\ kout = <<>>
    /\ pc = "idle"
    /\ caps = <<>>
    /\ seen = <<>>
    /\ scan_exit = "none"
    /\ player_id = None
    /\ forms = <<>>
    /\ name = ""
    /\ pic = [read |-> "pending", keys |-> <<>>, writes |-> 0]
    /\ files = <<>>
    /\ stdout = <<>>
    /\ cb_errors = 0

Next ==
    \/ Construct
    \/ RegisterViaClass
    \/ RegisterViaInstance
    \/ MainStart
    \/ ScanReadFail
    \/ ScanFound
    \/ ScanCancel
    \/ ScanContinue
    \/ ScanRaise
    \/ ScanAfterLoop
    \/ MainScanned
    \/ MainFailed
    \/ CloseForm
    \/ Submit
    \/ TakePictureReadFail
    \/ TakePicturePreview
    \/ TakePictureKey
    \/ TakePictureRaise
    \/ TakePictureRelease
    \/ SubmitLog

Spec == Init /\ [][Next]_vars

\* ================================================================ claims ==

InScan == pc \in {"scan_loop", "scan_after_loop"}
InTakePicture == pc \in {"pic_read", "pic_wait", "pic_release"}
ScanReturned == scan_exit \in {"found", "readfail", "cancel"} /\ pc # "scan_after_loop"
OpenCaps == {i \in 1..Len(caps) : caps[i].releases = 0}
Printed(kind) == \E i \in 1..Len(stdout) : stdout[i].kind = kind

\* C1: Killer(n) raises TooManyPlayersException and gives no session when
\* n > 4; for every n <= 4, zero and negative n included, it gives a
\* session whose amount_players is n.
C1_ConstructGuard ==
    kcall.op = "init" =>
        IF kcall.n > MaxPlayers
        THEN kexc = "TooManyPlayersException" /\ ~session.obj
        ELSE kexc = "none" /\ session.obj /\ session.amount_players = kcall.n

C1_Witness ==
    /\ kcall.op = "init" /\ kcall.n = MaxPlayers + 1
    /\ kexc = "TooManyPlayersException"

\* A frame yields a payload when it was read and decode(frame) is not empty.
Decodable(f) == f.ret /\ f.codes # <<>>

\* C2: the scan never reads a frame after one that yielded a payload (it has
\* ended by frame k), and when scan_qr_code returns -- payload found, read
\* failure or 'q' -- its camera handle has been released exactly once; it is
\* never released twice.
C2_ScanEndsReleasedOnce ==
    /\ \A i \in 1..Len(seen) :
         Decodable(seen[i]) => Len(seen) <= i /\ pc # "scan_loop"
    /\ caps # <<>> => caps[1].releases <= 1
    /\ ScanReturned => caps[1].releases = 1

C2_Witness ==
    /\ ScanReturned /\ scan_exit = "found"
    /\ Len(seen) = 2 /\ Decodable(seen[2])
    /\ caps[1].releases = 1

\* C3: once scan_qr_code or take_picture has been left, by return or by an
\* exception of a call inside it, the camera handle it opened is released.
C3_ReleasedOnEveryExit ==
    \A i \in 1..Len(caps) :
        LET running == IF caps[i].owner = "scan" THEN InScan
                       ELSE i = Len(caps) /\ InTakePicture
        IN  ~running => caps[i].releases >= 1

\* C4: a take_picture call writes at most one file, <player_id>_photo.png,
\* and only when its frame was read and the key in the preview window is
\* 's'; after a failed read or any other key nothing is written.
C4_PhotoOnlyOnSave ==
    /\ pic.writes <= 1
    /\ Len(files) <= 1
    /\ \A i \in 1..Len(files) : files[i] = PhotoPath(player_id) /\ pic.writes = 1
    /\ pic.writes = 1 =>
         /\ pic.read = "ok"
         /\ pic.keys # <<>> /\ pic.keys[1] % 256 = OrdS
    /\ (pic.read = "fail" \/ (pic.keys # <<>> /\ pic.keys[1] % 256 # OrdS)) =>
         pic.writes = 0 /\ files = <<>>

C4_Witness ==
    /\ pc = "pic_release" /\ pic.writes = 1
    /\ files = <<PhotoPath(player_id)>>
    /\ pic.keys[1] # OrdS

\* C5: wherever 'Player <id>: Name: <name> registered' has been printed, and
\* wherever the flow is Done, the photo file of that identifier is written.
C5_RegisteredOnlyWithPhoto ==
    /\ \A i \in 1..Len(stdout) :
         stdout[i].kind = "registered" => PhotoPath(stdout[i].id) \in Range(files)
    /\ pc = "done" => files # <<>>

\* C6: after the scan loop is left by a failed read or by 'q', the flow can
\* only go to Failed: the camera is released, the scan returns None, the
\* failure is printed, no form is opened, no second handle is opened, no
\* file is written and no registration is printed.
C6_FailedScan ==
    scan_exit \in {"readfail", "cancel"} =>
        /\ pc \in {"scan_after_loop", "main_check", "failed"}
        /\ pc # "scan_after_loop" => caps[1].releases = 1 /\ player_id = None
        /\ pc = "failed" => stdout[Len(stdout)].kind = "scan_failed"
        /\ forms = <<>> /\ Len(caps) = 1 /\ files = <<>>
        /\ ~Printed("registered") /\ ~Printed("scanned")

C6_Witness ==
    /\ scan_exit = "cancel" /\ pc = "failed"
    /\ Len(seen) = 2
    /\ Printed("scan_failed")

\* C7: registering a token adds exactly one player, of the mapped name, when
\* the token is a key of the mapping; when it is not, a miss is printed and
\* the players are unchanged; no exception is raised in either case.
C7_RegisterFromQr ==
    kcall.op = "register" =>
        /\ kexc = "none"
        /\ kcall.token \in DOMAIN mapping =>
             players = Append(kcall.before, mapping[kcall.token])
        /\ kcall.token \notin DOMAIN mapping =>
             /\ players = kcall.before
             /\ kout # <<>> /\ kout[Len(kout)] = [kind |-> "miss", text |-> kcall.token]

\* C8: after a frame yielded a text payload, the empty one included, the
\* camera is released and the flow opens the form with that payload; it
\* never is Failed and never prints 'QR Code scanning failed!'.
C8_DecodeOpensForm ==
    scan_exit = "found" =>
        /\ caps[1].releases = 1
        /\ pc # "failed" /\ ~Printed("scan_failed")
        /\ pc # "main_check" => forms = <<player_id>>

\* The first frame that yields a payload, 0 when there is none.
FirstWin(s) ==
    IF \E i \in 1..Len(s) : Decodable(s[i])
    THEN CHOOSE i \in 1..Len(s) :
           Decodable(s[i]) /\ \A j \in 1..(i - 1) : ~Decodable(s[j])
    ELSE 0

\* A frame that was not read, or one on which 'q' is pending.
Stops(f) == ~f.ret \/ f.key % 256 = OrdQ

\* C9: what scan_qr_code returns is the text of the first barcode of the
\* first frame that yields a payload, when no earlier frame failed to be
\* read or had 'q' pending ('q' on the winning frame itself does not count),
\* and None otherwise; the frame that decides is the last one read.
C9_FirstPayloadWins ==
    ScanReturned =>
        LET k == FirstWin(seen) IN
        IF k # 0 /\ \A j \in 1..(k - 1) : ~Stops(seen[j])
        THEN /\ player_id = Utf8Decode(seen[k].codes[1])
             /\ Len(seen) = k
        ELSE /\ player_id = None
             /\ Stops(seen[Len(seen)])
             /\ \A j \in 1..(Len(seen) - 1) : ~Stops(seen[j])

C9_Witness ==
    /\ ScanReturned /\ scan_exit = "found"
    /\ Len(seen) = 2
    /\ seen[2].codes = <<B_p2, B_p1>> /\ seen[2].key % 256 = OrdQ
    /\ player_id = <<112, 50>>

\* C10: at most one camera handle is open in any state; the scan's handle is
\* released before the form opens and before take_picture opens its own;
\* a run opens the camera at most once to scan and at most once for the
\* photo; no handle is open once the flow is Done or Failed.
C10_OneHandleAtATime ==
    /\ Cardinality(OpenCaps) <= 1
    /\ Cardinality({i \in 1..Len(caps) : caps[i].owner = "scan"}) <= 1
    /\ Cardinality({i \in 1..Len(caps) : caps[i].owner = "photo"}) <= 1
    /\ (forms # <<>> \/ InTakePicture) => caps[1].releases >= 1
    /\ pc \in {"done", "failed"} => OpenCaps = {}

====
